---- MODULE Spec2Model ----
(***************************************************************************)
(* A model of REL/profiler.py: the Profiler class (active timers, the two  *)
(* accumulating defaultdicts, the context manager, the report) and the     *)
(* profile decorator.                                                      *)
(*                                                                         *)
(* Time is a discrete non-decreasing clock `now` (time.monotonic()); a     *)
(* duration is a number of ticks.  A Python dict is a sequence of          *)
(* <<key, value>> pairs in insertion order, because _make_report iterates  *)
(* recorded_durations_sum.items() and the sort that follows is stable.     *)
(* A quotient a / b is kept exact as the pair <<a, b>>.  self._report,     *)
(* which summary() stores and nothing reads, is kept with the result of    *)
(* the summary() call that stored it.                                      *)
(***************************************************************************)
EXTENDS Integers, Sequences, FiniteSets, TLC

\* ---------------------------------------------------------------- bounds
MaxTime == 2        \* Spec: the clock runs from 0 to MaxTime
MaxGuardTime == 1   \* SpecGuard: the clock runs from 0 to MaxGuardTime
MaxCount == 2       \* a name completes at most MaxCount start/stop cycles
MaxDepth == 1       \* SpecGuard: at most MaxDepth nested guarded regions
MaxThreadTime == 1  \* SpecThreads: the clock runs from 0 to MaxThreadTime
MaxThreadCalls == 5 \* SpecThreads: the threads make at most MaxThreadCalls calls

Names == {"a", "bb"}    \* action names (func.__name__ for a wrapped callable)
Values == {"v"}         \* what a wrapped callable may return
Threads == {1, 2}       \* SpecThreads: the threads that share one Profiler

\* ------------------------------------------------------------ the errors
NoError == "ok"
\* ValueError(f"Attempted to start {action_name} which has already started.")
DuplicateActionStart == "ValueError: already started"
\* ValueError(f"Attempting to stop recording an action ... never started.")
UnknownActionStop == "ValueError: never started"
\* 100.0 * r_sum / total_duration with total_duration = 0.0, or x[1] / x[2]
ZeroDivisionError == "ZeroDivisionError"

\* --------------------------------------------- dicts in insertion order
Keys(d) == {d[i][1] : i \in 1..Len(d)}

Has(d, k) == k \in Keys(d)

IndexOf(d, k) == CHOOSE i \in 1..Len(d) : d[i][1] = k

Get(d, k) == d[IndexOf(d, k)][2]

\* d[k] += delta on a collections.defaultdict whose factory gives 0:
\* a missing key is inserted at the end, a present key keeps its place.
AddTo(d, k, delta) ==
    IF Has(d, k)
    THEN [d EXCEPT ![IndexOf(d, k)] = <<k, d[IndexOf(d, k)][2] + delta>>]
    ELSE Append(d, <<k, 0 + delta>>)

\* d[k] read on a defaultdict: a missing key is inserted with 0.
Touch(d, k) == IF Has(d, k) THEN d ELSE Append(d, <<k, 0>>)

\* The instance count and the duration sum of n, 0 when n has no record
\* (read without inserting).
Count(counts, n) == IF Has(counts, n) THEN Get(counts, n) ELSE 0

Sum(sums, n) == IF Has(sums, n) THEN Get(sums, n) ELSE 0

VARIABLES
    now,                      \* the reading time.monotonic() gives
    current_actions,          \* self.current_actions: name -> start reading
    recorded_durations_sum,   \* self.recorded_durations_sum
    recorded_instance_counts, \* self.recorded_instance_counts
    start_time,               \* self.start_time
    stack,                    \* the guarded regions entered and not yet left
    last,                     \* what the last call did, as its caller saw it
    hist,                     \* history: what the calls so far should add up to
    threads,                  \* SpecThreads: where each thread is in its call
    calls,                    \* SpecThreads: the calls the threads have made
    overlapped                \* SpecThreads: two calls have run interleaved

vars == <<now, current_actions, recorded_durations_sum, recorded_instance_counts,
          start_time, stack, last, hist, threads, calls, overlapped>>

\* What belongs to the threads of SpecThreads; a session driven from one
\* thread leaves it alone.
threadvars == <<threads, calls, overlapped>>

\* ------------------------------------------------- Profiler.start / stop
\* start() without its membership test: a second start of a running
\* action silently restarts its timer.
start_overwrite(ca, action_name, t) ==
    [err |-> NoError,
     current_actions |-> [k \in DOMAIN ca \cup {action_name} |->
                             IF k = action_name THEN t ELSE ca[k]]]

\* Profiler.start(action_name) called while the clock reads t.
start(ca, action_name, t) ==
    IF action_name \in DOMAIN ca
    THEN [err |-> DuplicateActionStart, current_actions |-> ca]
    ELSE [err |-> NoError,
          current_actions |-> [k \in DOMAIN ca \cup {action_name} |->
                                  IF k = action_name THEN t ELSE ca[k]]]

\* stop() that touches the accumulators before its membership test: an
\* unknown action gets an empty record although the call fails.
stop_lenient(ca, sums, counts, action_name, t) ==
    IF action_name \notin DOMAIN ca
    THEN [err |-> UnknownActionStop, ret |-> <<>>, duration |-> 0,
          current_actions |-> ca, sums |-> Touch(sums, action_name),
          counts |-> Touch(counts, action_name)]
    ELSE [err |-> NoError, ret |-> <<>>, duration |-> t - ca[action_name],
          current_actions |-> [k \in DOMAIN ca \ {action_name} |-> ca[k]],
          sums |-> AddTo(sums, action_name, t - ca[action_name]),
          counts |-> AddTo(counts, action_name, 1)]

\* stop() that assigns the duration instead of adding it.
stop_overwrite(ca, sums, counts, action_name, t) ==
    IF action_name \notin DOMAIN ca
    THEN [err |-> UnknownActionStop, ret |-> <<>>, duration |-> 0,
          current_actions |-> ca, sums |-> sums, counts |-> counts]
    ELSE [err |-> NoError, ret |-> <<>>, duration |-> t - ca[action_name],
          current_actions |-> [k \in DOMAIN ca \ {action_name} |-> ca[k]],
          sums |-> AddTo(AddTo(sums, action_name, -Sum(sums, action_name)),
                         action_name, t - ca[action_name]),
          counts |-> AddTo(counts, action_name, 1)]

\* stop() that hands the measured duration back to its caller.
stop_returning(ca, sums, counts, action_name, t) ==
    IF action_name \notin DOMAIN ca
    THEN [err |-> UnknownActionStop, ret |-> <<>>, duration |-> 0,
          current_actions |-> ca, sums |-> sums, counts |-> counts]
    ELSE [err |-> NoError, ret |-> <<t - ca[action_name]>>,
          duration |-> t - ca[action_name],
          current_actions |-> [k \in DOMAIN ca \ {action_name} |-> ca[k]],
          sums |-> AddTo(sums, action_name, t - ca[action_name]),
          counts |-> AddTo(counts, action_name, 1)]

\* stop() with the operands of the subtraction swapped.
stop_swapped(ca, sums, counts, action_name, t) ==
    IF action_name \notin DOMAIN ca
    THEN [err |-> UnknownActionStop, ret |-> <<>>, duration |-> 0,
          current_actions |-> ca, sums |-> sums, counts |-> counts]
    ELSE [err |-> NoError, ret |-> <<>>, duration |-> ca[action_name] - t,
          current_actions |-> [k \in DOMAIN ca \ {action_name} |-> ca[k]],
          sums |-> AddTo(sums, action_name, ca[action_name] - t),
          counts |-> AddTo(counts, action_name, 1)]

\* stop() that sets the instance count to 1 instead of adding 1 to it.
stop_recount(ca, sums, counts, action_name, t) ==
    IF action_name \notin DOMAIN ca
    THEN [err |-> UnknownActionStop, ret |-> <<>>, duration |-> 0,
          current_actions |-> ca, sums |-> sums, counts |-> counts]
    ELSE [err |-> NoError, ret |-> <<>>, duration |-> t - ca[action_name],
          current_actions |-> [k \in DOMAIN ca \ {action_name} |-> ca[k]],
          sums |-> AddTo(sums, action_name, t - ca[action_name]),
          counts |-> AddTo(counts, action_name,
                           1 - Count(counts, action_name))]

\* stop() that reads the timer with current_actions[action_name] instead of
\* popping it: the action stays in the table after its stop.
stop_keeping(ca, sums, counts, action_name, t) ==
    IF action_name \notin DOMAIN ca
    THEN [err |-> UnknownActionStop, ret |-> <<>>, duration |-> 0,
          current_actions |-> ca, sums |-> sums, counts |-> counts]
    ELSE [err |-> NoError, ret |-> <<>>, duration |-> t - ca[action_name],
          current_actions |-> ca,
          sums |-> AddTo(sums, action_name, t - ca[action_name]),
          counts |-> AddTo(counts, action_name, 1)]

\* stop() that takes the end reading itself for the duration.
stop_absolute(ca, sums, counts, action_name, t) ==
    IF action_name \notin DOMAIN ca
    THEN [err |-> UnknownActionStop, ret |-> <<>>, duration |-> 0,
          current_actions |-> ca, sums |-> sums, counts |-> counts]
    ELSE [err |-> NoError, ret |-> <<>>, duration |-> t,
          current_actions |-> [k \in DOMAIN ca \ {action_name} |-> ca[k]],
          sums |-> AddTo(sums, action_name, t),
          counts |-> AddTo(counts, action_name, 1)]

\* stop() that adds the duration and leaves out the count.
stop_uncounted(ca, sums, counts, action_name, t) ==
    IF action_name \notin DOMAIN ca
    THEN [err |-> UnknownActionStop, ret |-> <<>>, duration |-> 0,
          current_actions |-> ca, sums |-> sums, counts |-> counts]
    ELSE [err |-> NoError, ret |-> <<>>, duration |-> t - ca[action_name],
          current_actions |-> [k \in DOMAIN ca \ {action_name} |-> ca[k]],
          sums |-> AddTo(sums, action_name, t - ca[action_name]),
          counts |-> counts]

\* stop() that empties the table of active timers instead of popping the
\* one action.
stop_clearing(ca, sums, counts, action_name, t) ==
    IF action_name \notin DOMAIN ca
    THEN [err |-> UnknownActionStop, ret |-> <<>>, duration |-> 0,
          current_actions |-> ca, sums |-> sums, counts |-> counts]
    ELSE [err |-> NoError, ret |-> <<>>, duration |-> t - ca[action_name],
          current_actions |-> <<>>,
          sums |-> AddTo(sums, action_name, t - ca[action_name]),
          counts |-> AddTo(counts, action_name, 1)]

\* Profiler.stop(action_name) called while the clock reads t.  ret is the
\* value the call returns: <<>> is None.
stop(ca, sums, counts, action_name, t) ==
    LET end_time == t IN
    IF action_name \notin DOMAIN ca
    THEN [err |-> UnknownActionStop, ret |-> <<>>, duration |-> 0,
          current_actions |-> ca, sums |-> sums, counts |-> counts]
    ELSE LET start_time_ == ca[action_name]
             duration == end_time - start_time_
         IN [err |-> NoError, ret |-> <<>>, duration |-> duration,
             current_actions |-> [k \in DOMAIN ca \ {action_name} |-> ca[k]],
             sums |-> AddTo(sums, action_name, duration),
             counts |-> AddTo(counts, action_name, 1)]

\* ------------------------------------------------------------ the report
Sgn(x) == IF x > 0 THEN 1 ELSE IF x < 0 THEN -1 ELSE 0

Abs(x) == IF x < 0 THEN -x ELSE x

Max(a, b) == IF a >= b THEN a ELSE b

\* p < q for quotients p = <<a, b>>, q = <<c, d>> with b # 0 and d # 0.
QLess(p, q) == p[1] * Abs(q[2]) * Sgn(p[2]) < q[1] * Abs(p[2]) * Sgn(q[2])

\* A row whose percentage is the plain fraction r_sum / total_duration,
\* without the factor 100.
ReportRowFraction(action, r_sum, count, total_duration) ==
    <<action, r_sum, count, <<r_sum, total_duration>>>>

\* A row of the report list: [action, r_sum, instance count, percentage].
ReportRow(action, r_sum, count, total_duration) ==
    <<action, r_sum, count, <<100 * r_sum, total_duration>>>>

\* x put in front of the elements whose key is not larger: equal keys come
\* out in the reverse of the order they came in.
SortInsertBefore(s, x) ==
    LET notlarger == {i \in 1..Len(s) : ~QLess(x[4], s[i][4])}
        at == IF notlarger = {} THEN Len(s) + 1
              ELSE CHOOSE i \in notlarger : \A j \in notlarger : i <= j
    IN SubSeq(s, 1, at - 1) \o <<x>> \o SubSeq(s, at, Len(s))

\* x put into the list s, sorted by percentage descending, after every element
\* whose key is not smaller: equal keys keep the order they came in.
SortInsert(s, x) ==
    LET smaller == {i \in 1..Len(s) : QLess(s[i][4], x[4])}
        at == IF smaller = {} THEN Len(s) + 1
              ELSE CHOOSE i \in smaller : \A j \in smaller : i <= j
    IN SubSeq(s, 1, at - 1) \o <<x>> \o SubSeq(s, at, Len(s))

\* report.sort(key=lambda x: x[3], reverse=True): a stable sort.
RECURSIVE ReportSort(_)
ReportSort(rows) ==
    IF rows = <<>> THEN <<>>
    ELSE SortInsert(ReportSort(SubSeq(rows, 1, Len(rows) - 1)), rows[Len(rows)])

\* The defaultdict self.recorded_instance_counts after it was read for the
\* first n keys of sums.
RECURSIVE CountsRead(_, _, _)
CountsRead(sums, counts, n) ==
    IF n = 0 THEN counts ELSE Touch(CountsRead(sums, counts, n - 1), sums[n][1])

\* Profiler._make_report() called while the clock reads t.
_make_report(sums, counts, st, t) ==
    LET total_duration == t - st IN
    IF Len(sums) > 0 /\ total_duration = 0
    THEN [err |-> ZeroDivisionError, report |-> <<>>,
          total_duration |-> total_duration,
          counts |-> CountsRead(sums, counts, 1)]
    ELSE LET after == CountsRead(sums, counts, Len(sums))
             rows == [i \in 1..Len(sums) |->
                         ReportRow(sums[i][1], sums[i][2],
                                   Get(CountsRead(sums, counts, i), sums[i][1]),
                                   total_duration)]
         IN [err |-> NoError, report |-> ReportSort(rows),
             total_duration |-> total_duration, counts |-> after]

sep_len == 1    \* len(os.linesep)

PadLen(s, width) == Max(Len(s), width)

\* len(log_row(action, mean, num_calls, total, per)) for a column of max_key.
RowLen(action, mean, num_calls, total, per, max_key) ==
    sep_len + PadLen(action, max_key) + Len("_|__") + PadLen(mean, 15)
    + Len("_|") + PadLen(num_calls, 15) + Len("_|__") + PadLen(total, 15)
    + Len("_|__") + PadLen(per, 15) + Len("_|")

\* One piece appended to output_string.  kind is "title", "header", "rule",
\* "total", "action" or "end"; the numbers of a row are kept as they are
\* before formatting (mean and per as exact quotients), width is the width
\* the piece is padded or drawn to.
Piece(kind, action, mean, num_calls, total, per, width) ==
    [kind |-> kind, action |-> action, mean |-> mean, num_calls |-> num_calls,
     total |-> total, per |-> per, width |-> width]

Plain(kind, width) == Piece(kind, "", <<0, 1>>, 0, 0, <<0, 1>>, width)

SetMax(S) == CHOOSE x \in S : \A y \in S : y <= x

\* summary() that draws the table whether or not anything was recorded:
\* with no record the column of the actions is as wide as its label.
summary_with_total(sums, counts, st, t) ==
    LET max_key == SetMax({Len(k) : k \in Keys(sums)} \cup {Len("Action")})
        output_string_len ==
            Len("Profiler Report") + sep_len
            + RowLen("Action", "Mean duration (s)", "Num calls",
                     "Total time (s)", "Percentage %", max_key)
        made == _make_report(sums, counts, st, t)
        report == made.report
    IN IF made.err # NoError
       THEN [err |-> made.err, counts |-> made.counts,
             stored |-> FALSE, report |-> <<>>, out |-> <<>>]
       ELSE [err |-> NoError, counts |-> made.counts, stored |-> TRUE,
             report |-> [i \in 1..Len(report) |->
                            <<report[i][1], <<report[i][2], report[i][3]>>>>],
             out |-> <<Plain("title", Len("Profiler Report")),
                       Plain("header", max_key),
                       Plain("rule", output_string_len),
                       Piece("total", "Total", <<0, 1>>, 0,
                             made.total_duration, <<100, 1>>, max_key),
                       Plain("rule", output_string_len)>>
                     \o [i \in 1..Len(report) |->
                            Piece("action", report[i][1],
                                  <<report[i][2], report[i][3]>>,
                                  report[i][3], report[i][2],
                                  report[i][4], max_key)]
                     \o <<Plain("end", 0)>>]

\* Profiler.summary() called while the clock reads t.  out is the string
\* returned, piece by piece; stored tells whether self._report was assigned
\* and report is the value it was given.
summary(sums, counts, st, t) ==
    IF ~(Len(sums) > 0)
    THEN [err |-> NoError, counts |-> counts, stored |-> FALSE, report |-> <<>>,
          out |-> <<Plain("title", Len("Profiler Report")), Plain("end", 0)>>]
    ELSE LET max_key == SetMax({Len(k) : k \in Keys(sums)})
             output_string_len ==
                 Len("Profiler Report") + sep_len
                 + RowLen("Action", "Mean duration (s)", "Num calls",
                          "Total time (s)", "Percentage %", max_key)
             made == _make_report(sums, counts, st, t)
             report == made.report
         IN IF made.err # NoError
            THEN [err |-> made.err, counts |-> made.counts,
                  stored |-> FALSE, report |-> <<>>, out |-> <<>>]
            ELSE IF \E i \in 1..Len(report) : report[i][3] = 0
            THEN [err |-> ZeroDivisionError, counts |-> made.counts,
                  stored |-> FALSE, report |-> <<>>, out |-> <<>>]
            ELSE [err |-> NoError, counts |-> made.counts, stored |-> TRUE,
                  report |-> [i \in 1..Len(report) |->
                                 <<report[i][1], <<report[i][2], report[i][3]>>>>],
                  out |-> <<Plain("title", Len("Profiler Report")),
                            Plain("header", max_key),
                            Plain("rule", output_string_len),
                            Piece("total", "Total", <<0, 1>>, 0,
                                  made.total_duration, <<100, 1>>, max_key),
                            Plain("rule", output_string_len)>>
                          \o [i \in 1..Len(report) |->
                                 Piece("action", report[i][1],
                                       <<report[i][2], report[i][3]>>,
                                       report[i][3], report[i][2],
                                       report[i][4], max_key)]
                          \o <<Plain("end", 0)>>]

\* ------------------------------------------------- the context manager
\* What a call or a guarded body ends with: kind is "normal" (a block that
\* runs to its end), "return" or "raise"; val is <<>> for None, else <<x>>.
Outcome(kind, val) == [kind |-> kind, val |-> val]

Returned(val) == Outcome("return", val)

Raised(err) == Outcome("raise", <<err>>)

Err(o) == IF o.kind = "raise" THEN o.val[1] ELSE NoError

\* Profiler.profile(action_name) up to its yield: what entering the with
\* statement does.  start() runs inside the try, so when it raises the
\* finally clause still calls stop(); an error raised there replaces the
\* one in flight.
profile_enter(ca, sums, counts, action_name, t) ==
    LET s == start(ca, action_name, t) IN
    IF s.err = NoError
    THEN [entered |-> TRUE, seen |-> Returned(<<action_name>>), released |-> FALSE,
          current_actions |-> s.current_actions, sums |-> sums, counts |-> counts]
    ELSE LET f == stop(s.current_actions, sums, counts, action_name, t) IN
         [entered |-> FALSE,
          seen |-> IF f.err = NoError THEN Raised(s.err) ELSE Raised(f.err),
          released |-> f.err = NoError,
          current_actions |-> f.current_actions, sums |-> f.sums,
          counts |-> f.counts]

\* The generator without try/finally: an error raised by the body passes
\* the stop() call by.
profile_exit_no_finally(ca, sums, counts, action_name, t, body) ==
    IF body.kind = "raise"
    THEN [seen |-> body, released |-> FALSE,
          current_actions |-> ca, sums |-> sums, counts |-> counts]
    ELSE LET f == stop(ca, sums, counts, action_name, t) IN
         [seen |-> IF f.err = NoError THEN body ELSE Raised(f.err),
          released |-> f.err = NoError,
          current_actions |-> f.current_actions, sums |-> f.sums,
          counts |-> f.counts]

\* Profiler.profile(action_name) from its yield on: the guarded body ended
\* with `body`, the finally clause calls stop().
profile_exit(ca, sums, counts, action_name, t, body) ==
    LET f == stop(ca, sums, counts, action_name, t) IN
    [seen |-> IF f.err = NoError THEN body ELSE Raised(f.err),
     released |-> f.err = NoError,
     current_actions |-> f.current_actions, sums |-> f.sums, counts |-> f.counts]

\* ------------------------------------------------------------ the history
\* A start(n) succeeded at t.
HistStart(h, n, t) ==
    [h EXCEPT !.starts[n] = @ + 1, !.began[n] = t]

\* A stop(n) succeeded at t.
HistStop(h, n, t) ==
    [h EXCEPT !.stops[n] = @ + 1, !.elapsed[n] = @ + (t - h.began[n]),
              !.began[n] = 0,
              !.order = IF \E i \in 1..Len(@) : @[i] = n THEN @ ELSE Append(@, n)]

\* History of set_global_start_time: stale records that the session start
\* was moved while a timer was running or a record existed, so that time
\* measured before the new session start is, or will be, in the records.
HistReset(h, ca, sums) ==
    [h EXCEPT !.stale = @ \/ DOMAIN ca # {} \/ Len(sums) > 0]

\* A guarded region: its name, and the count of the name and the number of
\* successful stops of the name when it was entered.
Frame(n, count0, stops0) == [name |-> n, count0 |-> count0, stops0 |-> stops0]

NoBody == Outcome("none", <<>>)

\* What the last call was and what its caller saw of it: seen is what the
\* call returned or raised, body is how the guarded body ended when the
\* call is the leaving of a guarded region, out and report are the string
\* summary() returned and the self._report it stored.
Result(op, n, seen, body, out, report) ==
    [op |-> op, name |-> n, seen |-> seen, body |-> body, out |-> out,
     report |-> report]

\* How the body of a guarded region may end: it runs to its end or returns
\* None, returns a value, raises its own error "E", or lets the error of
\* the call before it pass.
BodyOutcomes(l) ==
    {Returned(<<>>), Raised("E")}
    \cup {Returned(<<v>>) : v \in Values}
    \cup (IF Err(l.seen) # NoError THEN {Raised(Err(l.seen))} ELSE {})

\* A thread that is not inside a call.
Idle ==
    [pc |-> "idle", name |-> "", reading |-> 0, end_time |-> 0,
     duration |-> 0, tmp |-> 0]

\* ------------------------------------------------------------- the state
Init ==
    /\ now = 0
    /\ current_actions = <<>>
    /\ recorded_durations_sum = <<>>
    /\ recorded_instance_counts = <<>>
    /\ start_time = 0
    /\ stack = <<>>
    /\ last = Result("init", "", Returned(<<>>), NoBody, <<>>, <<>>)
    /\ hist = [starts |-> [n \in Names |-> 0], stops |-> [n \in Names |-> 0],
               elapsed |-> [n \in Names |-> 0], began |-> [n \in Names |-> 0],
               order |-> <<>>, stale |-> FALSE, doubled |-> {}]
    /\ threads = [t \in Threads |-> Idle]
    /\ calls = 0
    /\ overlapped = FALSE

\* time.monotonic() moves on, up to limit.
Tick(limit) ==
    /\ now < limit
    /\ now' = now + 1
    /\ UNCHANGED <<current_actions, recorded_durations_sum,
                   recorded_instance_counts, start_time, stack, last, hist>>
    /\ UNCHANGED threadvars

\* The counters stay within the bound: a stop that would succeed may run.
MayStop(n) ==
    n \in DOMAIN current_actions => Count(recorded_instance_counts, n) < MaxCount

\* p.start(n)
Start(n) ==
    LET r == start(current_actions, n, now) IN
    /\ current_actions' = r.current_actions
    /\ last' = Result("start", n,
                      IF r.err = NoError THEN Returned(<<>>) ELSE Raised(r.err),
                      NoBody, <<>>, <<>>)
    /\ hist' = IF r.err = NoError THEN HistStart(hist, n, now) ELSE hist
    /\ UNCHANGED <<now, recorded_durations_sum, recorded_instance_counts,
                   start_time, stack>>
    /\ UNCHANGED threadvars

\* p.stop(n)
Stop(n) ==
    LET r == stop(current_actions, recorded_durations_sum,
                  recorded_instance_counts, n, now) IN
    /\ MayStop(n)
    /\ current_actions' = r.current_actions
    /\ recorded_durations_sum' = r.sums
    /\ recorded_instance_counts' = r.counts
    /\ last' = Result("stop", n,
                      IF r.err = NoError THEN Returned(r.ret) ELSE Raised(r.err),
                      NoBody, <<>>, <<>>)
    /\ hist' = IF r.err = NoError THEN HistStop(hist, n, now) ELSE hist
    /\ UNCHANGED <<now, start_time, stack>>
    /\ UNCHANGED threadvars

\* `with p.profile(n):` is entered, by the caller or by the wrapper of a
\* callable named n that is decorated with profile: wrapper_do_twice enters
\* `with self.profiler.profile(func.__name__)`.
ProfileEnter(n) ==
    LET r == profile_enter(current_actions, recorded_durations_sum,
                           recorded_instance_counts, n, now) IN
    /\ r.entered => Len(stack) < MaxDepth
    /\ MayStop(n)
    /\ current_actions' = r.current_actions
    /\ recorded_durations_sum' = r.sums
    /\ recorded_instance_counts' = r.counts
    /\ last' = Result("enter", n, r.seen, NoBody, <<>>, <<>>)
    /\ hist' = IF r.entered THEN HistStart(hist, n, now)
               ELSE IF r.released THEN HistStop(hist, n, now) ELSE hist
    /\ stack' = IF r.entered
                THEN Append(stack, Frame(n, Count(recorded_instance_counts, n),
                                         hist.stops[n]))
                ELSE stack
    /\ UNCHANGED <<now, start_time>>
    /\ UNCHANGED threadvars

\* The body of the innermost guarded region ends with `body`: the with
\* statement is left, and the wrapper returns or raises what it returns or
\* raises.
ProfileExit(body) ==
    /\ Len(stack) > 0
    /\ LET top == stack[Len(stack)]
           r == profile_exit(current_actions, recorded_durations_sum,
                             recorded_instance_counts, top.name, now, body)
       IN /\ body \in BodyOutcomes(last)
          /\ MayStop(top.name)
          /\ current_actions' = r.current_actions
          /\ recorded_durations_sum' = r.sums
          /\ recorded_instance_counts' = r.counts
          /\ last' = Result("exit", top.name, r.seen, body, <<>>, <<>>)
          /\ hist' = IF r.released THEN HistStop(hist, top.name, now) ELSE hist
          /\ stack' = SubSeq(stack, 1, Len(stack) - 1)
    /\ UNCHANGED <<now, start_time>>
    /\ UNCHANGED threadvars

\* A set_global_start_time that begins a fresh session: it also drops the
\* records made so far.
SetGlobalStartTimeClearing ==
    /\ start_time' = now
    /\ recorded_durations_sum' = <<>>
    /\ recorded_instance_counts' = <<>>
    /\ last' = Result("set_global_start_time", "", Returned(<<>>), NoBody,
                      <<>>, <<>>)
    /\ hist' = HistReset(hist, current_actions, recorded_durations_sum)
    /\ UNCHANGED <<now, current_actions, stack>>
    /\ UNCHANGED threadvars

\* p.set_global_start_time()
SetGlobalStartTime ==
    /\ start_time' = now
    /\ last' = Result("set_global_start_time", "", Returned(<<>>), NoBody,
                      <<>>, <<>>)
    /\ hist' = HistReset(hist, current_actions, recorded_durations_sum)
    /\ UNCHANGED <<now, current_actions, recorded_durations_sum,
                   recorded_instance_counts, stack>>
    /\ UNCHANGED threadvars

\* A summary() that begins a new measuring period once it has reported: it
\* moves the session start to the current clock reading.
SummaryRestarting ==
    LET r == summary(recorded_durations_sum, recorded_instance_counts,
                     start_time, now) IN
    /\ recorded_instance_counts' = r.counts
    /\ start_time' = now
    /\ last' = Result("summary", "",
                      IF r.err = NoError THEN Returned(<<"str">>) ELSE Raised(r.err),
                      NoBody, r.out, r.report)
    /\ UNCHANGED <<now, current_actions, recorded_durations_sum, stack, hist>>
    /\ UNCHANGED threadvars

\* p.summary()
Summary ==
    LET r == summary(recorded_durations_sum, recorded_instance_counts,
                     start_time, now) IN
    /\ recorded_instance_counts' = r.counts
    /\ last' = Result("summary", "",
                      IF r.err = NoError THEN Returned(<<"str">>) ELSE Raised(r.err),
                      NoBody, r.out, r.report)
    /\ UNCHANGED <<now, current_actions, recorded_durations_sum, start_time,
                   stack, hist>>
    /\ UNCHANGED threadvars

AllOutcomes ==
    {Returned(<<>>), Raised("E"), Raised(DuplicateActionStart),
     Raised(UnknownActionStop), Raised(ZeroDivisionError)}
    \cup {Returned(<<v>>) : v \in Values}

\* The session driven by direct calls: start, stop, set_global_start_time
\* and summary, while the clock moves.
Next ==
    \/ Tick(MaxTime)
    \/ \E n \in Names : Start(n)
    \/ \E n \in Names : Stop(n)
    \/ SetGlobalStartTime
    \/ Summary

Spec == Init /\ [][Next]_vars

\* The session driven by guarded regions (with statements and wrapped
\* callables) whose bodies call start and stop and enter further regions.
NextGuard ==
    \/ Tick(MaxGuardTime)
    \/ \E n \in Names : Start(n)
    \/ \E n \in Names : Stop(n)
    \/ \E n \in Names : ProfileEnter(n)
    \/ \E body \in AllOutcomes : ProfileExit(body)

SpecGuard == Init /\ [][NextGuard]_vars

\* -------------------------------------------- two threads, one Profiler
\* The threads call start and stop on one Profiler with nothing that
\* excludes one another.  A call runs as the steps the interpreter may
\* switch threads between: each reading of the clock, the membership test,
\* the store into or the pop from the table, and for each accumulator the
\* read and then the store of `d[k] += x`.

\* d[k] = v: a present key keeps its place, a missing one goes to the end.
Put(d, k, v) ==
    IF Has(d, k) THEN [d EXCEPT ![IndexOf(d, k)] = <<k, v>>]
    ELSE Append(d, <<k, v>>)

\* The store of `recorded_durations_sum[action_name] += duration`: what was
\* read, plus the duration.
stop_sum_store(sums, action_name, read, duration) ==
    Put(sums, action_name, read + duration)

\* A store of the count that leaves out the increment.
stop_count_store_same(counts, action_name, read) ==
    Put(counts, action_name, read)

\* The store of `recorded_instance_counts[action_name] += 1`: what was read,
\* plus 1.
stop_count_store(counts, action_name, read) ==
    Put(counts, action_name, read + 1)

\* History of a start that succeeded in a thread; doubled keeps the names
\* of which a start succeeded while the name was in the table.
HistThreadStart(h, n, ca) ==
    [h EXCEPT !.starts[n] = @ + 1,
              !.doubled = IF n \in DOMAIN ca THEN @ \cup {n} ELSE @]

\* History of a stop that has completed in a thread: one more stop, and
\* the duration it measured is what it should have added.
HistThreadStop(h, n, duration) ==
    [h EXCEPT !.stops[n] = @ + 1,
              !.elapsed[n] = @ + duration,
              !.order = IF \E i \in 1..Len(@) : @[i] = n THEN @ ELSE Append(@, n)]

\* Thread t takes a step while another thread is inside a call.
Overlaps(t) == \E u \in Threads \ {t} : threads[u].pc # "idle"

\* What every step of a thread leaves alone.
ThreadFrame(t) ==
    /\ overlapped' = (overlapped \/ Overlaps(t))
    /\ UNCHANGED <<now, start_time, stack, last>>

\* The store of `self.current_actions[action_name] = ...`: the reading is
\* written whether or not the name is in the table by now.
start_store(ca, action_name, reading) ==
    [k \in DOMAIN ca \cup {action_name} |->
        IF k = action_name THEN reading ELSE ca[k]]

\* start, line 38: `if action_name in self.current_actions: raise`.
ThreadStartCheck(t, n) ==
    /\ threads[t].pc = "idle"
    /\ calls < MaxThreadCalls
    /\ calls' = calls + 1
    /\ threads' = [threads EXCEPT ![t] =
                      IF n \in DOMAIN current_actions
                      THEN Idle
                      ELSE [Idle EXCEPT !.pc = "start_write",
                                                     !.name = n]]
    /\ UNCHANGED <<current_actions, recorded_durations_sum,
                   recorded_instance_counts, hist>>
    /\ ThreadFrame(t)

\* start, line 42, the right-hand side: `time.monotonic()` is read.
ThreadStartClock(t) ==
    /\ threads[t].pc = "start_write"
    /\ threads' = [threads EXCEPT ![t].pc = "start_store", ![t].reading = now]
    /\ UNCHANGED <<current_actions, recorded_durations_sum,
                   recorded_instance_counts, hist>>
    /\ UNCHANGED calls
    /\ ThreadFrame(t)

\* start, line 42, the store: `self.current_actions[action_name] = ` the
\* reading made before; the call returns.
ThreadStartWrite(t) ==
    /\ threads[t].pc = "start_store"
    /\ current_actions' = start_store(current_actions, threads[t].name,
                                      threads[t].reading)
    /\ hist' = HistThreadStart(hist, threads[t].name, current_actions)
    /\ threads' = [threads EXCEPT ![t] = Idle]
    /\ UNCHANGED <<recorded_durations_sum, recorded_instance_counts>>
    /\ UNCHANGED calls
    /\ ThreadFrame(t)

\* stop, line 45: `end_time = time.monotonic()`.
ThreadStopClock(t, n) ==
    /\ threads[t].pc = "idle"
    /\ calls < MaxThreadCalls
    /\ calls' = calls + 1
    /\ threads' = [threads EXCEPT ![t] =
                      [Idle EXCEPT !.pc = "stop_test",
                                                !.name = n,
                                                !.end_time = now]]
    /\ UNCHANGED <<current_actions, recorded_durations_sum,
                   recorded_instance_counts, hist>>
    /\ ThreadFrame(t)

\* stop, line 46: `if action_name not in self.current_actions: raise`.
ThreadStopCheck(t) ==
    /\ threads[t].pc = "stop_test"
    /\ threads' = [threads EXCEPT ![t] =
                      IF @.name \notin DOMAIN current_actions
                      THEN Idle
                      ELSE [@ EXCEPT !.pc = "stop_pop"]]
    /\ UNCHANGED <<current_actions, recorded_durations_sum,
                   recorded_instance_counts, hist>>
    /\ UNCHANGED calls
    /\ ThreadFrame(t)

\* stop, lines 50-51: `start_time = self.current_actions.pop(action_name)`,
\* a KeyError when another thread has popped the name since the test, and
\* `duration = end_time - start_time`.
ThreadStopPop(t) ==
    /\ threads[t].pc = "stop_pop"
    /\ LET n == threads[t].name IN
       IF n \notin DOMAIN current_actions
       THEN /\ threads' = [threads EXCEPT ![t] = Idle]
            /\ UNCHANGED current_actions
       ELSE /\ threads' = [threads EXCEPT ![t].pc = "sum_read",
                              ![t].duration = threads[t].end_time
                                              - current_actions[n]]
            /\ current_actions' =
                   [k \in DOMAIN current_actions \ {n} |-> current_actions[k]]
    /\ UNCHANGED <<recorded_durations_sum, recorded_instance_counts, hist>>
    /\ UNCHANGED calls
    /\ ThreadFrame(t)

\* stop, line 52, the read of `recorded_durations_sum[action_name] += ...`:
\* the defaultdict inserts 0 for a missing name.
ThreadSumRead(t) ==
    /\ threads[t].pc = "sum_read"
    /\ recorded_durations_sum' = Touch(recorded_durations_sum, threads[t].name)
    /\ threads' = [threads EXCEPT ![t].pc = "sum_write",
                      ![t].tmp = Get(recorded_durations_sum', threads[t].name)]
    /\ UNCHANGED <<current_actions, recorded_instance_counts, hist>>
    /\ UNCHANGED calls
    /\ ThreadFrame(t)

\* stop, line 52, the store.
ThreadSumWrite(t) ==
    /\ threads[t].pc = "sum_write"
    /\ recorded_durations_sum' =
           stop_sum_store(recorded_durations_sum, threads[t].name,
                          threads[t].tmp, threads[t].duration)
    /\ threads' = [threads EXCEPT ![t].pc = "count_read", ![t].tmp = 0]
    /\ UNCHANGED <<current_actions, recorded_instance_counts, hist>>
    /\ UNCHANGED calls
    /\ ThreadFrame(t)

\* stop, line 53, the read of `recorded_instance_counts[action_name] += 1`.
ThreadCountRead(t) ==
    /\ threads[t].pc = "count_read"
    /\ recorded_instance_counts' =
           Touch(recorded_instance_counts, threads[t].name)
    /\ threads' = [threads EXCEPT ![t].pc = "count_write",
                      ![t].tmp = Get(recorded_instance_counts', threads[t].name)]
    /\ UNCHANGED <<current_actions, recorded_durations_sum, hist>>
    /\ UNCHANGED calls
    /\ ThreadFrame(t)

\* stop, line 53, the store; the call returns.
ThreadCountWrite(t) ==
    /\ threads[t].pc = "count_write"
    /\ recorded_instance_counts' =
           stop_count_store(recorded_instance_counts, threads[t].name,
                            threads[t].tmp)
    /\ hist' = HistThreadStop(hist, threads[t].name, threads[t].duration)
    /\ threads' = [threads EXCEPT ![t] = Idle]
    /\ UNCHANGED <<current_actions, recorded_durations_sum>>
    /\ UNCHANGED calls
    /\ ThreadFrame(t)

\* The clock moves on while the threads run.
ThreadTick ==
    /\ now < MaxThreadTime
    /\ now' = now + 1
    /\ UNCHANGED <<current_actions, recorded_durations_sum,
                   recorded_instance_counts, start_time, stack, last, hist,
                   threads, calls, overlapped>>

NextThreads ==
    \/ ThreadTick
    \/ \E t \in Threads, n \in Names : ThreadStartCheck(t, n)
    \/ \E t \in Threads : ThreadStartClock(t)
    \/ \E t \in Threads : ThreadStartWrite(t)
    \/ \E t \in Threads, n \in Names : ThreadStopClock(t, n)
    \/ \E t \in Threads : ThreadStopCheck(t)
    \/ \E t \in Threads : ThreadStopPop(t)
    \/ \E t \in Threads : ThreadSumRead(t)
    \/ \E t \in Threads : ThreadSumWrite(t)
    \/ \E t \in Threads : ThreadCountRead(t)
    \/ \E t \in Threads : ThreadCountWrite(t)

SpecThreads == Init /\ [][NextThreads]_vars

\* ------------------------------------------------------------ the claims
Active == DOMAIN current_actions

Aggregates == <<recorded_durations_sum, recorded_instance_counts>>

\* C1: start(name) on a name that already has an active timer fails with
\* DuplicateActionStart and leaves the active timers (the start reading of
\* name included), every aggregate record and start_time as they were; on a
\* name that is not active it succeeds and records the current clock
\* reading under name, the other timers staying as they were.
C1_StartDuplicateFails ==
    [][\A n \in Names : Start(n) =>
          IF n \in Active
          THEN /\ last'.seen = Raised(DuplicateActionStart)
               /\ UNCHANGED <<current_actions, Aggregates, start_time>>
          ELSE /\ last'.seen = Returned(<<>>)
               /\ DOMAIN current_actions' = Active \cup {n}
               /\ current_actions'[n] = now
               /\ \A k \in Active : current_actions'[k] = current_actions[k]]_vars

\* A start of a running action has just failed, after the clock moved on
\* from the reading the action started at.
C1_Witness ==
    /\ last.op = "start"
    /\ last.seen = Raised(DuplicateActionStart)
    /\ last.name \in Active
    /\ current_actions[last.name] < now

\* C2: stop(name) on a name that has no active timer fails with
\* UnknownActionStop and creates or changes no aggregate record, and leaves
\* the active timers and start_time as they were.
C2_StopUnknownFails ==
    [][\A n \in Names : Stop(n) /\ n \notin Active =>
          /\ last'.seen = Raised(UnknownActionStop)
          /\ UNCHANGED <<current_actions, Aggregates, start_time>>]_vars

\* A stop has just failed on a name that was never started, and on a name
\* that was stopped since its last start.
C2_Witness ==
    /\ last.op = "stop"
    /\ last.seen = Raised(UnknownActionStop)
    /\ hist.starts[last.name] = 0
    /\ \E m \in Names : hist.stops[m] > 0 /\ m \notin Active

\* C3: for every name, the count is the number of successful stops of the
\* name so far and the duration sum is the sum, over those stops, of the
\* clock reading at the stop minus the reading at the matching start; a
\* name with no successful stop has no aggregate record.
C3_CountsAndSums ==
    \A n \in Names :
        /\ Count(recorded_instance_counts, n) = hist.stops[n]
        /\ Sum(recorded_durations_sum, n) = hist.elapsed[n]
        /\ Has(recorded_durations_sum, n) <=> hist.stops[n] > 0
        /\ Has(recorded_instance_counts, n) <=> hist.stops[n] > 0

\* A name has completed two cycles that both took time, another name has
\* completed none.
C3_Witness ==
    \E n, m \in Names :
        /\ hist.stops[n] = 2
        /\ hist.elapsed[n] = 2
        /\ Get(recorded_instance_counts, n) = 2
        /\ hist.stops[m] = 0

Top == stack[Len(stack)]

\* C4, as claimed: whenever a guarded region that was entered successfully
\* is left, in whatever way, its name is not active afterwards and its
\* count is exactly one more than when the region was entered.
C4_AsClaimed ==
    [][\A body \in AllOutcomes : ProfileExit(body) =>
          /\ Top.name \notin DOMAIN current_actions'
          /\ Count(recorded_instance_counts', Top.name) = Top.count0 + 1]_vars

\* C4, amended: whenever a guarded region that was entered successfully is
\* left, by its body running to its end, returning or raising, and no stop
\* of its name succeeded inside the region, the stop of the release
\* succeeds: the caller sees what the body ended with, the name is not
\* active afterwards and its count is exactly one more than when the
\* region was entered.
C4_GuardStopsOnce ==
    [][\A body \in AllOutcomes :
          ProfileExit(body) /\ hist.stops[Top.name] = Top.stops0 =>
              /\ last'.seen = body
              /\ Top.name \notin DOMAIN current_actions'
              /\ Count(recorded_instance_counts', Top.name) = Top.count0 + 1
              /\ hist'.stops[Top.name] = hist.stops[Top.name] + 1]_vars

\* On a fresh session a region was guarded whose body raised: the region
\* has just been left, the error went on to the caller, and the only stop
\* of the name so far, the release, left its count at 1.
C4_Witness ==
    /\ last.op = "exit"
    /\ last.body = Raised("E")
    /\ last.seen = Raised("E")
    /\ hist.starts[last.name] = 1
    /\ hist.stops[last.name] = 1
    /\ Count(recorded_instance_counts, last.name) = 1
    /\ last.name \notin Active

\* C5: entering a guarded region for a name that is already active fails
\* with DuplicateActionStart and performs no release: the running timer of
\* the name stays active with its start reading and no aggregate record is
\* created or changed; so only a region that was entered stops a timer.
C5_FailedAcquireReleasesNothing ==
    [][\A n \in Names : ProfileEnter(n) /\ n \in Active =>
          /\ last'.seen = Raised(DuplicateActionStart)
          /\ UNCHANGED <<current_actions, Aggregates>>]_vars

\* C6: leaving a guarded region hands the outcome of its body on unchanged:
\* the value it returned, or the error it raised, and never an error of the
\* release.
C6_OutcomeUnchanged ==
    last.op = "exit" => last.seen = last.body

\* C7, as claimed: a successful stop returns the elapsed time, the clock
\* reading at the stop minus the start reading recorded for the name.
C7_AsClaimed ==
    [][\A n \in Names : Stop(n) /\ n \in Active =>
          last'.seen = Returned(<<now - current_actions[n]>>)]_vars

\* C7, amended: a successful stop returns nothing (None); the elapsed time,
\* the clock reading at the stop minus the start reading recorded for the
\* name, is what it adds to the duration sum of the name.
C7_StopReturnsNone ==
    [][\A n \in Names : Stop(n) /\ n \in Active =>
          /\ last'.seen = Returned(<<>>)
          /\ Sum(recorded_durations_sum', n)
                 = Sum(recorded_durations_sum, n) + (now - current_actions[n])]_vars

\* A stop has just succeeded and returned None, after a cycle that took
\* time.
C7_Witness ==
    /\ last.op = "stop"
    /\ last.seen = Returned(<<>>)
    /\ Sum(recorded_durations_sum, last.name) > 0
    /\ hist.stops[last.name] = 1

\* C8: the clock never reads less than the start reading of a running
\* timer, every successful stop adds a duration >= 0, and right after it
\* the name is not active: a further start of it succeeds and a further
\* stop of it fails.
C8_ElapsedNonNegative ==
    [][\A n \in Names : Stop(n) /\ n \in Active =>
          /\ current_actions[n] <= now
          /\ Sum(recorded_durations_sum', n) >= Sum(recorded_durations_sum, n)
          /\ n \notin DOMAIN current_actions'
          /\ start(current_actions', n, now').err = NoError
          /\ stop(current_actions', recorded_durations_sum',
                  recorded_instance_counts', n, now').err = UnknownActionStop]_vars

\* A stop has just succeeded on a timer that ran for some time; the name
\* is not active.
C8_Witness ==
    /\ last.op = "stop"
    /\ last.seen.kind = "return"
    /\ last.name \notin Active
    /\ hist.elapsed[last.name] > 0
    /\ \E m \in Active : current_actions[m] < now

\* The rows of the actions in the last summary, in the order of the string.
ActionRows == SelectSeq(last.out, LAMBDA piece : piece.kind = "action")

PlaceIn(order, n) == CHOOSE i \in 1..Len(order) : order[i] = n

\* p < q and p = q for the percentages of two rows of one report.
PerLess(p, q) == p[1] * q[2] < q[1] * p[2]

PerEqual(p, q) == p[1] * q[2] = q[1] * p[2]

\* C9: in every report the rows of the actions come by percentage, never
\* increasing, and rows of equal percentage come in completion order: the
\* action that was first stopped successfully earlier comes first.  The
\* aggregate records stay in completion order whatever is stopped later.
C9_ReportOrder ==
    /\ [i \in 1..Len(recorded_durations_sum) |-> recorded_durations_sum[i][1]]
           = hist.order
    /\ last.op = "summary" /\ last.seen.kind = "return" =>
           \A i, j \in 1..Len(ActionRows) : i < j =>
               /\ ~PerLess(ActionRows[i].per, ActionRows[j].per)
               /\ PerEqual(ActionRows[i].per, ActionRows[j].per) =>
                      PlaceIn(hist.order, ActionRows[i].action)
                          < PlaceIn(hist.order, ActionRows[j].action)

\* A report has two rows of equal percentage above zero; the action of the
\* first row was started after the other and was stopped twice.
C9_Witness ==
    /\ last.op = "summary"
    /\ Len(ActionRows) = 2
    /\ PerEqual(ActionRows[1].per, ActionRows[2].per)
    /\ ActionRows[1].total > 0
    /\ ActionRows[1].num_calls = 2
    /\ ActionRows[1].action = "bb"

NoneCompleted == \A n \in Names : hist.stops[n] = 0

Kinds(out) == {out[i].kind : i \in 1..Len(out)}

\* C10, as claimed: summary() on a session with no completed action
\* returns a header and a Total row and no action rows, without a division
\* by zero.
C10_AsClaimed ==
    last.op = "summary" /\ NoneCompleted =>
        /\ last.seen.kind = "return"
        /\ "total" \in Kinds(last.out)
        /\ "action" \notin Kinds(last.out)

\* C10, amended: summary() on a session with no completed action, whether
\* or not some names are active, returns the title line "Profiler Report"
\* and an empty line only: no row of column labels, no Total row, no action
\* rows, and it raises nothing.
C10_EmptyReport ==
    last.op = "summary" /\ NoneCompleted =>
        /\ last.seen.kind = "return"
        /\ Len(last.out) = 2
        /\ last.out[1].kind = "title"
        /\ last.out[2].kind = "end"
        /\ Kinds(last.out) \cap {"header", "total", "action"} = {}

\* A summary has just been made with no completed action while a name was
\* active and the clock had moved on.
C10_Witness ==
    /\ last.op = "summary"
    /\ NoneCompleted
    /\ Active # {}
    /\ now > start_time

\* C11: summary() never raises, in whatever state it is called: with no
\* record, with some records, and also when the clock still reads
\* start_time (total_duration = 0) while records exist.
C11_SummaryNeverRaises ==
    last.op = "summary" => last.seen.kind = "return"

\* C12: set_global_start_time sets start_time to the current clock reading
\* and changes nothing else: every record keeps its duration sum and its
\* count, the order of first completion is unchanged, and every active
\* timer stays active with the timestamp it was started at.
C12_ResetFrame ==
    [][SetGlobalStartTime =>
          /\ start_time' = now
          /\ UNCHANGED <<current_actions, Aggregates>>
          /\ hist'.order = hist.order]_vars

\* The session start has just been moved to a later clock reading while a
\* timer started earlier was running and a record with a positive duration
\* sum existed.
C12_Witness ==
    /\ last.op = "set_global_start_time"
    /\ start_time = now
    /\ now > 0
    /\ \E n \in Active : current_actions[n] < start_time
    /\ \E n \in Names : Sum(recorded_durations_sum, n) > 0

\* C13: the records only grow.  Across every step a name that has a record
\* keeps it, its duration sum and its count do not decrease, and its count
\* grows by exactly 1 when the step is a stop of that name that succeeds
\* and by 0 on every other step.
C13_RecordsOnlyGrow ==
    [][\A n \in Names :
          /\ Has(recorded_durations_sum, n) => Has(recorded_durations_sum', n)
          /\ Has(recorded_instance_counts, n) => Has(recorded_instance_counts', n)
          /\ Sum(recorded_durations_sum', n) >= Sum(recorded_durations_sum, n)
          /\ Count(recorded_instance_counts', n)
               = Count(recorded_instance_counts, n)
                 + (IF Stop(n) /\ n \in Active THEN 1 ELSE 0)]_vars

\* A name has just completed its second cycle: its count went from 1 to 2
\* and its duration sum is positive, while the other name has a record too.
C13_Witness ==
    /\ last.op = "stop"
    /\ last.seen.kind = "return"
    /\ Count(recorded_instance_counts, last.name) = 2
    /\ Sum(recorded_durations_sum, last.name) > 0
    /\ \E m \in Names \ {last.name} : Has(recorded_instance_counts, m)

\* C14: in a single-threaded session a name has at most one active timer.
\* For every name the number of starts that succeeded minus the number of
\* stops that succeeded is 0 or 1, and it is 1 exactly when the name is in
\* the active-timer table.
C14_OneTimerPerName ==
    \A n \in Names :
        /\ hist.starts[n] - hist.stops[n] \in {0, 1}
        /\ hist.starts[n] - hist.stops[n] = 1 <=> n \in Active

\* One name is in its second cycle (started twice, stopped once, active)
\* while the other has completed a cycle and is not active.
C14_Witness ==
    \E n, m \in Names :
        /\ hist.starts[n] = 2 /\ hist.stops[n] = 1 /\ n \in Active
        /\ hist.starts[m] = 1 /\ hist.stops[m] = 1 /\ m \notin Active

\* (a) an update is lost: the count or the duration sum of n is less than
\* what the completed stops of n should have added up to.
LostUpdate(n) ==
    \/ Count(recorded_instance_counts, n) < hist.stops[n]
    \/ Sum(recorded_durations_sum, n) < hist.elapsed[n]

\* (b) a duplicate start was not rejected: a start of n succeeded while n
\* was in the table of active timers.
DuplicateStart(n) == n \in hist.doubled

\* C15: the Profiler is not thread-safe.  With two threads calling start
\* and stop with no mutual exclusion, a lost update or an unrejected
\* duplicate start is only ever the outcome of calls that ran interleaved
\* (calls that run one after the other never produce either), and a state
\* with both corruptions is reachable (C15_Witness).
C15_CorruptionNeedsInterleaving ==
    \A n \in Names : LostUpdate(n) \/ DuplicateStart(n) => overlapped

\* Both corruptions in one state, all calls returned: two completed stops
\* of a name of which the count shows one, after two starts of the name
\* that both succeeded with no stop in between.
C15_Witness ==
    /\ \A t \in Threads : threads[t].pc = "idle"
    /\ \E n \in Names : /\ hist.stops[n] = 2
                         /\ Count(recorded_instance_counts, n) = 1
                         /\ DuplicateStart(n)

\* C16: the report summary() builds has exactly one row for every name that
\* has a record and no other row; the row of a name shows its current count
\* and duration sum, the mean duration_sum / count and the percentage
\* 100 * duration_sum / total_duration, where total_duration = now -
\* start_time is also what the Total row shows.
C16_ReportRows ==
    [][Summary /\ last'.seen.kind = "return" =>
          LET rows == SelectSeq(last'.out, LAMBDA piece : piece.kind = "action")
              totals == SelectSeq(last'.out, LAMBDA piece : piece.kind = "total")
              total_duration == now - start_time
          IN /\ Len(rows) = Cardinality(Keys(recorded_durations_sum))
             /\ \A n \in Keys(recorded_durations_sum) :
                   \E i \in 1..Len(rows) : rows[i].action = n
             /\ \A i \in 1..Len(rows) :
                   LET n == rows[i].action IN
                   /\ Has(recorded_durations_sum, n)
                   /\ rows[i].num_calls = Count(recorded_instance_counts, n)
                   /\ rows[i].total = Sum(recorded_durations_sum, n)
                   /\ rows[i].mean = <<Sum(recorded_durations_sum, n),
                                       Count(recorded_instance_counts, n)>>
                   /\ rows[i].per = <<100 * Sum(recorded_durations_sum, n),
                                      total_duration>>
             /\ Len(rows) > 0 =>
                   Len(totals) = 1 /\ totals[1].total = total_duration]_vars

\* A report has just been made with one row, of a name that completed two
\* cycles with a positive duration sum, while the other name was active
\* and had never been stopped.
C16_Witness ==
    /\ last.op = "summary"
    /\ last.seen.kind = "return"
    /\ Len(ActionRows) = 1
    /\ ActionRows[1].num_calls = 2
    /\ ActionRows[1].total > 0
    /\ \E m \in Active : hist.stops[m] = 0

\* The total_duration the Total row of the last report shows.
TotalShown ==
    SelectSeq(last.out, LAMBDA piece : piece.kind = "total")[1].total

\* Every action row of the last report shows a duration sum between 0 and
\* the total_duration of its Total row.
RowsWithinTotal ==
    \A i \in 1..Len(ActionRows) :
        0 <= ActionRows[i].total /\ ActionRows[i].total <= TotalShown

\* C17, as claimed: whenever summary() is called with total_duration > 0,
\* every recorded name has 0 <= duration_sum <= total_duration (no row above
\* 100 %), whatever calls came before, set_global_start_time after
\* completed actions or during running ones included.
C17_AsClaimed ==
    last.op = "summary" /\ last.seen.kind = "return" => RowsWithinTotal

\* C17, amended: the same, for the sessions in which set_global_start_time
\* was only ever called while no action was active and no record existed.
C17_ShareOfTotal ==
    last.op = "summary" /\ last.seen.kind = "return" /\ ~hist.stale
        => RowsWithinTotal

\* A report has just been made in a session whose start was moved to a
\* later clock reading before any timing began, and an action takes the
\* whole of its positive total_duration.
C17_Witness ==
    /\ last.op = "summary"
    /\ last.seen.kind = "return"
    /\ ~hist.stale
    /\ start_time > 0
    /\ Len(ActionRows) > 0
    /\ ActionRows[1].total = TotalShown
    /\ TotalShown > 0

\* C18: in a single-threaded session the names that have a duration sum
\* are the names that have an instance count, and each of these counts is
\* at least 1; so the count summary() reads for a row, the divisor of the
\* mean, is never 0, and reading it adds no record to the counts.
C18_CountsMatchSums ==
    /\ Keys(recorded_durations_sum) = Keys(recorded_instance_counts)
    /\ \A n \in Keys(recorded_instance_counts) :
          Get(recorded_instance_counts, n) >= 1
    /\ \A i \in 1..Len(recorded_durations_sum) :
          Get(CountsRead(recorded_durations_sum, recorded_instance_counts, i),
              recorded_durations_sum[i][1]) >= 1
    /\ CountsRead(recorded_durations_sum, recorded_instance_counts,
                  Len(recorded_durations_sum)) = recorded_instance_counts

\* A report with a row for each of the two names has just been made, one
\* of them with two completed cycles.
C18_Witness ==
    /\ last.op = "summary"
    /\ last.seen.kind = "return"
    /\ Len(ActionRows) = 2
    /\ Keys(recorded_instance_counts) = Names
    /\ \E n \in Names : Count(recorded_instance_counts, n) = 2

\* C19: summary() only reads the profiling state: it leaves the table of
\* active timers, every duration sum and count, the order of first
\* completion and start_time as they are, whether it returns a report or
\* raises.
C19_SummaryReadOnly ==
    [][Summary =>
          /\ UNCHANGED <<current_actions, Aggregates, start_time>>
          /\ hist'.order = hist.order]_vars

\* A report with a row has just been made while a timer was running and
\* the session start had been moved.
C19_Witness ==
    /\ last.op = "summary"
    /\ last.seen.kind = "return"
    /\ Len(ActionRows) > 0
    /\ Active # {}
    /\ start_time > 0

\* Name m is active after the step exactly if it was before, with the
\* timestamp it was started at.
TimerKept(m) ==
    /\ m \in DOMAIN current_actions' <=> m \in DOMAIN current_actions
    /\ m \in DOMAIN current_actions => current_actions'[m] = current_actions[m]

\* Name m has a record after the step exactly if it had one before, with
\* the same duration sum and count.
RecordKept(m) ==
    /\ Has(recorded_durations_sum', m) <=> Has(recorded_durations_sum, m)
    /\ Has(recorded_instance_counts', m) <=> Has(recorded_instance_counts, m)
    /\ Sum(recorded_durations_sum', m) = Sum(recorded_durations_sum, m)
    /\ Count(recorded_instance_counts', m) = Count(recorded_instance_counts, m)

\* C20: start and stop touch only the name they are given.  start(n)
\* changes no record at all, stop(n) no record but that of n; for every
\* other name m its active status, its start timestamp, its duration sum
\* and its count stay as they are, and start_time is not changed.
C20_OnlyTheNameGiven ==
    [][\A n \in Names :
          /\ Start(n) => /\ UNCHANGED <<Aggregates, start_time>>
                         /\ \A m \in Names \ {n} : TimerKept(m)
          /\ Stop(n) => /\ UNCHANGED start_time
                        /\ \A m \in Names \ {n} : TimerKept(m) /\ RecordKept(m)]_vars

\* A stop has just succeeded while the other name was active, started at
\* an earlier clock reading, and had a record with a positive duration sum.
C20_Witness ==
    /\ last.op = "stop"
    /\ last.seen.kind = "return"
    /\ \E m \in Active \ {last.name} :
          /\ current_actions[m] < now
          /\ Sum(recorded_durations_sum, m) > 0

====
